---- MODULE Spec2Model ----
(***************************************************************************)
(* Model of the chat proxy handler of netlify/functions/chat.js: one       *)
(* invocation of exports.handler, the promise built by callDeepSeekAPI,    *)
(* and the events node's https client delivers to the listeners the code   *)
(* registers.  src/unnamed/part_000 is an earlier text of the same file    *)
(* without the `system` field; `variant` selects which of the two runs.    *)
(*                                                                         *)
(* JavaScript values are tagged records; a JavaScript string is a sequence *)
(* of pieces, so that concatenation and trim are computed, not assumed.    *)
(* The Chinese message texts of the source are written in English.         *)
(***************************************************************************)
EXTENDS Integers, Sequences, FiniteSets, TLC

\* ---------------------------------------------------------------- bounds
MaxMsgs == 2      \* longest `messages` array of an inbound request
MaxSysLen == 2    \* longest `system` string of an inbound request
MaxChunks == 2    \* most 'data' events one upstream response is split in

\* ------------------------------------------------------ JavaScript values
Undefined == [t |-> "undefined"]
Null == [t |-> "null"]
Str(s) == [t |-> "string", v |-> s]
Num(n) == [t |-> "number", v |-> n]
Bool(b) == [t |-> "boolean", v |-> b]
Arr(a) == [t |-> "array", v |-> a]
Obj(o) == [t |-> "object", v |-> o]
EmptyObj == Obj(<<>>)

\* a thrown or rejected Error object; only its .message is ever read
Error(m) == [t |-> "error", message |-> m]

\* outcome of an expression that may throw
Ok(x) == [ok |-> TRUE, val |-> x]
Throw(m) == [ok |-> FALSE, val |-> Error(m)]

\* ToBoolean: what `!x` and `x || y` test
Truthy(x) ==
  CASE x.t \in {"undefined", "null"} -> FALSE
    [] x.t = "string" -> x.v # <<>>
    [] x.t = "number" -> x.v # 0
    [] x.t = "boolean" -> x.v
    [] OTHER -> TRUE

\* ToString of the values that reach `new Error(x)` and string concatenation
ToStr(x) ==
  CASE x.t = "string" -> x.v
    [] x.t = "number" -> <<ToString(x.v)>>
    [] x.t = "boolean" -> <<IF x.v THEN "true" ELSE "false">>
    [] x.t = "array" -> <<"[array]">>
    [] OTHER -> <<"[object Object]">>

\* x.k for x that is not null or undefined (own properties of JSON values)
Get(x, k) ==
  IF x.t = "object" /\ k \in DOMAIN x.v THEN x.v[k] ELSE Undefined

\* x?.k
OptGet(x, k) ==
  IF x.t \in {"undefined", "null"} THEN Undefined ELSE Get(x, k)

\* x?.[0]
OptIndex0(x) ==
  IF x.t \in {"array", "string"} /\ Len(x.v) > 0
  THEN IF x.t = "array" THEN x.v[1] ELSE Str(<<x.v[1]>>)
  ELSE Undefined

\* String.prototype.trim
IsSpace(c) == c \in {" ", "\t", "\n"}

RECURSIVE TrimStart(_)
TrimStart(s) ==
  IF s # <<>> /\ IsSpace(Head(s)) THEN TrimStart(Tail(s)) ELSE s

RECURSIVE TrimEnd(_)
TrimEnd(s) ==
  IF s # <<>> /\ IsSpace(s[Len(s)]) THEN TrimEnd(SubSeq(s, 1, Len(s) - 1)) ELSE s

Trim(s) == TrimEnd(TrimStart(s))

\* ------------------------------------------------------------- JSON texts
\* A text is a sequence of fragments; fragment i of n of the serialisation
\* of document d is [doc |-> d, i |-> i, n |-> n].  Garbage is a document
\* that is no JSON value.
Garbage == [t |-> "garbage"]
Text(frags) == [t |-> "text", v |-> frags]
Frags(d, n) == [i \in 1..n |-> [doc |-> d, i |-> i, n |-> n]]

\* JSON.stringify of a value obtained from JSON
Stringify(x) == Text(Frags(x, 1))

\* JSON.parse: undefined is read as the text "undefined" (a SyntaxError),
\* null as the text "null"
JSONParse(x) ==
  CASE x.t = "null" -> Ok(Null)
    [] x.t = "text" /\ x.v # <<>> /\ x.v = Frags(x.v[1].doc, x.v[1].n)
         /\ x.v[1].doc # Garbage -> Ok(x.v[1].doc)
    [] OTHER -> Throw(<<"SyntaxError: Unexpected token">>)

\* --------------------------------------------------------------- inputs
RECURSIVE SeqsUpTo(_, _)
SeqsUpTo(S, n) ==
  IF n = 0 THEN {<<>>}
  ELSE LET shorter == SeqsUpTo(S, n - 1)
       IN shorter \cup {Append(s, x) : s \in {q \in shorter : Len(q) = n - 1}, x \in S}

Msg(role, content) == Obj([role |-> Str(<<role>>), content |-> Str(content)])

\* the first n turns of a conversation: user and assistant in turn, every
\* turn with a text of its own
Turn(i) == Msg(IF i % 2 = 1 THEN "user" ELSE "assistant", <<"turn ", ToString(i)>>)
Conversation(n) == [i \in 1..n |-> Turn(i)]

MessagesFields ==
  {Undefined, Null, Str(<<"hi">>), EmptyObj}
    \cup {Arr(Conversation(n)) : n \in 0..MaxMsgs}

SystemFields ==
  {Undefined, Null, Num(5)} \cup {Str(s) : s \in SeqsUpTo({" ", "a"}, MaxSysLen)}

\* an object with the fields that are present (Undefined = field absent)
MkObj(fields) ==
  Obj([k \in {f \in DOMAIN fields : fields[f] # Undefined} |-> fields[k]])

RequestDocs ==
  {Garbage, Null, Num(5), Str(<<"hi">>), Arr(<<>>)}
    \cup {MkObj([messages |-> m, system |-> s]) : m \in MessagesFields, s \in SystemFields}

EventBodies == {Undefined, Null} \cup {Text(Frags(d, 1)) : d \in RequestDocs}
Methods == {"POST", "GET", "post"}
Events == [httpMethod : Methods, body : EventBodies]

\* process.env.DEEPSEEK_API_KEY: unset, empty, or a secret
Secrets == {Str(<<"sk-1">>), Str(<<"sk-2">>)}
EnvValues == {Undefined, Str(<<>>)} \cup Secrets

Variants == {"chat.js", "part_000"}

VARIABLES
  variant,   \* which text of the handler runs
  env,       \* process.env.DEEPSEEK_API_KEY
  event,     \* the inbound event, None before the invocation
  pc,        \* "idle", "awaiting" (suspended at the await), "returned"
  response,  \* what the handler returned, None before
  ops,       \* the operations the handler has performed
  requests,  \* number of https.request calls made
  req,       \* the ClientRequest: options and written body, None before
  socket,    \* "none", "open", "destroyed" (by req.destroy), "closed"
  res,       \* "none", "receiving", "ended", "aborted"
  wire,      \* fragments the upstream has still to send
  data,      \* the `data` accumulator of the response callback
  promise,   \* the promise of callDeepSeekAPI: state and value
  log,       \* console.error lines
  events     \* history: the listener calls made so far, in order

vars == <<variant, env, event, pc, response, ops, requests, req, socket, res,
          wire, data, promise, log, events>>

None == [t |-> "none"]

Init ==
  /\ variant \in Variants
  /\ env \in EnvValues
  /\ event = None
  /\ pc = "idle"
  /\ response = None
  /\ ops = {}
  /\ requests = 0
  /\ req = None
  /\ socket = "none"
  /\ res = "none"
  /\ wire = <<>>
  /\ data = Text(<<>>)
  /\ promise = [state |-> "none", value |-> Undefined]
  /\ log = <<>>
  /\ events = <<>>

\* ------------------------------------------------ exports.handler, step 2
\* the try block that parses event.body; a throw is the catch's parseError
\* mutant: the empty array is let through (the length test is lost)
ParseRequest_acceptsEmpty(v, body) ==
  LET parsedBody == JSONParse(body)
  IN IF ~parsedBody.ok THEN parsedBody
     ELSE IF parsedBody.val.t = "null"
     THEN Throw(<<"TypeError: Cannot read properties of null (reading 'messages')">>)
     ELSE LET messages == Get(parsedBody.val, "messages")
              system == Get(parsedBody.val, "system")
              systemPrompt == IF v = "chat.js" /\ system.t = "string"
                              THEN Str(Trim(system.v)) ELSE Null
          IN IF messages.t # "array"
             THEN Throw(<<"messages field is empty or malformed">>)
             ELSE Ok([messages |-> messages, systemPrompt |-> systemPrompt])

ParseRequest(v, body) ==
  LET parsedBody == JSONParse(body)
  IN IF ~parsedBody.ok THEN parsedBody
     ELSE IF parsedBody.val.t = "null"
     THEN Throw(<<"TypeError: Cannot read properties of null (reading 'messages')">>)
     ELSE LET messages == Get(parsedBody.val, "messages")
              system == Get(parsedBody.val, "system")
              systemPrompt == IF v = "chat.js" /\ system.t = "string"
                              THEN Str(Trim(system.v)) ELSE Null
          IN IF messages.t # "array" \/ Len(messages.v) = 0
             THEN Throw(<<"messages field is empty or malformed">>)
             ELSE Ok([messages |-> messages, systemPrompt |-> systemPrompt])

\* ------------------------------------------------------------- responses
JsonHeaders == ("Content-Type" :> "application/json")
CorsHeaders == JsonHeaders @@ ("Access-Control-Allow-Origin" :> "*")

Response405 ==
  [statusCode |-> 405, headers |-> JsonHeaders,
   body |-> Stringify(Obj([error |-> Str(<<"Only POST requests are supported">>)]))]

Response400(parseError) ==
  [statusCode |-> 400, headers |-> JsonHeaders,
   body |-> Stringify(Obj([error |-> Str(<<"Request format error: ">> \o parseError.message)]))]

ConfigErrorText(v) ==
  IF v = "chat.js"
  THEN <<"Server configuration error: add DEEPSEEK_API_KEY to the Netlify environment variables.">>
  ELSE <<"Server configuration error: API Key not set. Add DEEPSEEK_API_KEY to the Netlify environment variables.">>

Response500(v) ==
  [statusCode |-> 500, headers |-> JsonHeaders,
   body |-> Stringify(Obj([error |-> Str(ConfigErrorText(v))]))]

Response200(aiReply) ==
  [statusCode |-> 200, headers |-> CorsHeaders,
   body |-> Stringify(Obj([reply |-> aiReply]))]

UnavailablePrefix == "AI service temporarily unavailable: "

Response502(apiError) ==
  [statusCode |-> 502, headers |-> JsonHeaders,
   body |-> Stringify(Obj([error |-> Str(<<UnavailablePrefix>> \o apiError.message)]))]

\* ------------------------------------------------ exports.handler, step 4
SystemMessage(systemPrompt) ==
  Obj([role |-> Str(<<"system">>), content |-> systemPrompt])

\* mutant: the system message is appended instead of prepended
FullMessages_appended(systemPrompt, messages) ==
  IF Truthy(systemPrompt)
  THEN Arr(messages.v \o <<SystemMessage(systemPrompt)>>)
  ELSE messages

FullMessages(systemPrompt, messages) ==
  IF Truthy(systemPrompt)
  THEN Arr(<<SystemMessage(systemPrompt)>> \o messages.v)
  ELSE messages

MaxTokens == 1024
Temperature == [t |-> "number", v |-> 7, scale |-> 10]   \* 0.7

DeepseekPayload(fullMessages) ==
  Stringify(Obj([model |-> Str(<<"deepseek-chat">>),
                 messages |-> fullMessages,
                 temperature |-> Temperature,
                 max_tokens |-> Num(MaxTokens),
                 stream |-> Bool(FALSE)]))

\* ------------------------------------------------------- callDeepSeekAPI
\* Buffer.byteLength, counted in fragments
ByteLength(payload) == Len(payload.v)

\* the options of https.request, and the body given to req.write
ClientRequest(apiKey, payload) ==
  [hostname |-> "api.deepseek.com",
   path |-> "/v1/chat/completions",
   method |-> "POST",
   headers |-> [ContentType |-> "application/json",
                Authorization |-> <<"Bearer ">> \o apiKey.v,
                ContentLength |-> ByteLength(payload)],
   body |-> payload]

Pending == [state |-> "pending", value |-> Undefined]

\* resolve and reject of a promise: only the first call settles it
Resolve(p, x) == IF p.state = "pending" THEN [state |-> "resolved", value |-> x] ELSE p
\* mutant: a later reject overwrites the settlement
Reject_lastWins(p, e) == [state |-> "rejected", value |-> e]

Reject(p, e) == IF p.state = "pending" THEN [state |-> "rejected", value |-> e] ELSE p

Placeholder == Str(<<"(could not parse the AI reply)">>)
GenericApiError == Str(<<"DeepSeek API returned an error">>)
ParseFailurePrefix == "Failed to parse the DeepSeek response: "
TimeoutError == Error(<<"Request timed out (60s)">>)

\* parsed?.choices?.[0]?.message?.content || placeholder
ExtractText(parsed) ==
  LET content == OptGet(OptGet(OptIndex0(OptGet(parsed, "choices")), "message"), "content")
  IN IF Truthy(content) THEN content ELSE Placeholder

\* mutant: no fallback for an error object without a message
OnEnd_noFallback(d) ==
  LET parsed == JSONParse(d)
  IN IF ~parsed.ok
     THEN [kind |-> "reject", value |-> Error(<<ParseFailurePrefix>> \o parsed.val.message)]
     ELSE IF parsed.val.t = "null"
     THEN [kind |-> "reject",
           value |-> Error(<<ParseFailurePrefix,
                             "TypeError: Cannot read properties of null (reading 'error')">>)]
     ELSE IF Truthy(Get(parsed.val, "error"))
     THEN LET message == Get(Get(parsed.val, "error"), "message")
          IN [kind |-> "reject",
              value |-> Error(IF message = Undefined THEN <<>> ELSE ToStr(message))]
     ELSE [kind |-> "resolve", value |-> ExtractText(parsed.val)]

\* the 'end' listener: the settlement it asks for
OnEnd(d) ==
  LET parsed == JSONParse(d)
  IN IF ~parsed.ok
     THEN [kind |-> "reject", value |-> Error(<<ParseFailurePrefix>> \o parsed.val.message)]
     ELSE IF parsed.val.t = "null"
     THEN [kind |-> "reject",
           value |-> Error(<<ParseFailurePrefix,
                             "TypeError: Cannot read properties of null (reading 'error')">>)]
     ELSE IF Truthy(Get(parsed.val, "error"))
     THEN LET message == Get(Get(parsed.val, "error"), "message")
          IN [kind |-> "reject",
              value |-> Error(ToStr(IF Truthy(message) THEN message ELSE GenericApiError))]
     ELSE [kind |-> "resolve", value |-> ExtractText(parsed.val)]

Settle(p, s) ==
  IF s.kind = "resolve" THEN Resolve(p, s.value) ELSE Reject(p, s.value)

\* ----------------------------------------------------- exports.handler
\* step 1: event.httpMethod !== 'POST' is the early return
\* mutant: the method is compared without regard to case
MethodAllowed_anyCase(method) == method \in {"POST", "post"}

MethodAllowed(method) == method = "POST"

\* step 3: !apiKey
\* mutant: only an unset variable counts as missing
CredentialMissing_onlyUnset(apiKey) == apiKey = Undefined

CredentialMissing(apiKey) == ~Truthy(apiKey)

\* The handler from its call to its first return or to the await: method
\* check, body parsing, credential, payload, and the executor of the
\* promise (https.request, the listeners, req.write, req.end).  The result
\* names what the run did: the response returned (None when it suspends at
\* the await), the operations performed, the request made, the lines logged.
HandlerSync(v, e, environment) ==
  IF ~MethodAllowed(e.httpMethod)
  THEN [response |-> Response405, ops |-> {}, req |-> None, log |-> <<>>]
  ELSE LET parsedReq == ParseRequest(v, e.body)
       IN IF ~parsedReq.ok
          THEN [response |-> Response400(parsedReq.val), ops |-> {"JSON.parse"},
                req |-> None, log |-> <<>>]
          ELSE LET apiKey == environment
               IN IF CredentialMissing(apiKey)
                  THEN [response |-> Response500(v),
                        ops |-> {"JSON.parse", "process.env"},
                        req |-> None,
                        log |-> <<<<"DEEPSEEK_API_KEY is not set">>>>]
                  ELSE LET fullMessages == FullMessages(parsedReq.val.systemPrompt,
                                                        parsedReq.val.messages)
                       IN [response |-> None,
                           ops |-> {"JSON.parse", "process.env", "https.request"},
                           req |-> ClientRequest(apiKey, DeepseekPayload(fullMessages)),
                           log |-> <<>>]

HandlerStart ==
  /\ pc = "idle"
  /\ \E e \in Events :
       LET run == HandlerSync(variant, e, env)
       IN /\ event' = e
          /\ response' = run.response
          /\ ops' = ops \cup run.ops
          /\ log' = log \o run.log
          /\ IF run.req = None
             THEN /\ pc' = "returned"
                  /\ UNCHANGED <<requests, req, socket, promise>>
             ELSE /\ pc' = "awaiting"
                  /\ req' = run.req
                  /\ requests' = requests + 1
                  /\ socket' = "open"
                  /\ promise' = Pending
  /\ UNCHANGED <<variant, env, res, wire, data, events>>

\* the continuation of `await callDeepSeekAPI(...)`, with apiKey in scope:
\* the try's return or the catch's
\* mutant: the failure text names the key that was used
FinalResponse_namesKey(apiKey, p) ==
  IF p.state = "resolved" THEN Response200(p.value)
  ELSE Response502(Error(p.value.message \o <<" (key ">> \o apiKey.v \o <<")">>))

FinalResponse(apiKey, p) ==
  IF p.state = "resolved" THEN Response200(p.value) ELSE Response502(p.value)

\* mutant: a failed call is tried once more before the handler gives up
HandlerResume_retries ==
  /\ pc = "awaiting"
  /\ promise.state \in {"resolved", "rejected"}
  /\ IF promise.state = "rejected" /\ requests < 2
     THEN /\ requests' = requests + 1
          /\ socket' = "open"
          /\ res' = "none"
          /\ wire' = <<>>
          /\ data' = Text(<<>>)
          /\ promise' = Pending
          /\ UNCHANGED <<pc, response, log>>
     ELSE /\ response' = FinalResponse(env, promise)
          /\ log' = IF promise.state = "rejected"
                    THEN Append(log, <<"DeepSeek API call failed: ">> \o promise.value.message)
                    ELSE log
          /\ pc' = "returned"
          /\ UNCHANGED <<requests, socket, res, wire, data, promise>>
  /\ UNCHANGED <<variant, env, event, ops, req, events>>

HandlerResume ==
  /\ pc = "awaiting"
  /\ promise.state \in {"resolved", "rejected"}
  /\ response' = FinalResponse(env, promise)
  /\ log' = IF promise.state = "rejected"
            THEN Append(log, <<"DeepSeek API call failed: ">> \o promise.value.message)
            ELSE log
  /\ pc' = "returned"
  /\ UNCHANGED <<variant, env, event, ops, requests, req, socket, res, wire, data, promise, events>>

\* ------------------------------------------------- the upstream's answers
ErrorFields ==
  {Undefined, Null, Str(<<"oops">>), EmptyObj,
   Obj([message |-> Str(<<"rate limited">>)]),
   Obj([message |-> Str(<<>>)]),
   Obj([message |-> Num(429)])}

ContentFields == {Undefined, Null, Str(<<>>), Str(<<"hello">>), Num(7)}

ChoicesFields ==
  {Undefined, Arr(<<>>), Str(<<"x">>), Arr(<<EmptyObj>>), Arr(<<Obj([message |-> Null])>>)}
    \cup {Arr(<<Obj([message |-> MkObj([content |-> c])])>>) : c \in ContentFields}

UpstreamDocs ==
  {Garbage, Null, Num(5), Bool(FALSE), Str(<<"hi">>)}
    \cup {MkObj([error |-> e, choices |-> Undefined]) : e \in ErrorFields}
    \cup {MkObj([error |-> Undefined, choices |-> c]) : c \in ChoicesFields}
    \cup {MkObj([error |-> Null, choices |-> Arr(<<>>)])}
    \cup {MkObj([error |-> Obj([message |-> Str(<<"rate limited">>)]),
                 choices |-> Arr(<<Obj([message |-> Obj([content |-> Str(<<"hello">>)])])>>)])}

\* errors node reports on the request: refused or reset connections
TransportErrors == {Error(<<"connect ECONNREFUSED">>), Error(<<"read ECONNRESET">>)}
HangUpError == Error(<<"socket hang up">>)

\* ------------------------------------------ events of the https client
\* one call of a listener, with the argument the formulas below look at
Ev(type, arg) == [type |-> type, arg |-> arg]

\* the callback of https.request: the response head has arrived
ResponseStart ==
  /\ socket = "open"
  /\ res = "none"
  /\ \E d \in UpstreamDocs, n \in 0..MaxChunks :
       /\ (n = 0 => d = Garbage)     \* an empty body is no JSON text
       /\ wire' = Frags(d, n)
  /\ res' = "receiving"
  /\ data' = Text(<<>>)
  /\ events' = Append(events, Ev("response", Undefined))
  /\ UNCHANGED <<variant, env, event, pc, response, ops, requests, req, socket, promise, log>>

\* res.on('data'): data += chunk
ResData ==
  /\ socket = "open"
  /\ res = "receiving"
  /\ wire # <<>>
  /\ data' = Text(data.v \o <<Head(wire)>>)
  /\ wire' = Tail(wire)
  /\ events' = Append(events, Ev("data", Undefined))
  /\ UNCHANGED <<variant, env, event, pc, response, ops, requests, req, socket, res, promise, log>>

\* res.on('end'): the body is complete.  After req.destroy() an 'end' that
\* was already queued is still let through.
ResEnd ==
  /\ socket \in {"open", "destroyed"}
  /\ res = "receiving"
  /\ wire = <<>>
  /\ promise' = Settle(promise, OnEnd(data))
  /\ res' = "ended"
  /\ socket' = "closed"
  /\ events' = Append(events, Ev("end", data))
  /\ UNCHANGED <<variant, env, event, pc, response, ops, requests, req, wire, data, log>>

\* req.on('error'): the connection fails, before or during the response
ReqError ==
  /\ socket = "open"
  /\ res \in {"none", "receiving"}
  /\ \E err \in TransportErrors :
       /\ promise' = Reject(promise, err)
       /\ events' = Append(events, Ev("error", err))
  /\ socket' = "closed"
  /\ res' = IF res = "receiving" THEN "aborted" ELSE res
  /\ UNCHANGED <<variant, env, event, pc, response, ops, requests, req, wire, data, log>>

\* the callback of req.setTimeout: the socket has been idle for 60 s
Timeout ==
  /\ socket = "open"
  /\ socket' = "destroyed"                      \* req.destroy()
  /\ promise' = Reject(promise, TimeoutError)
  /\ events' = Append(events, Ev("timeout", Undefined))
  /\ UNCHANGED <<variant, env, event, pc, response, ops, requests, req, res, wire, data, log>>

\* the socket that req.destroy() tore down closes: without a response the
\* request emits 'error' (socket hang up), with one the response is aborted
DestroyedClose ==
  /\ socket = "destroyed"
  /\ socket' = "closed"
  /\ promise' = IF res = "none" THEN Reject(promise, HangUpError) ELSE promise
  /\ res' = IF res = "receiving" THEN "aborted" ELSE res
  /\ events' = IF res = "none" THEN Append(events, Ev("error", HangUpError)) ELSE events
  /\ UNCHANGED <<variant, env, event, pc, response, ops, requests, req, wire, data, log>>

\* the upstream closes the connection after the response head and before
\* the whole body: the response emits 'aborted' and 'close', for which no
\* listener is registered; on the Node versions the README asks for (>= 18)
\* neither 'end' nor the request's 'error' follows, and the closed socket's
\* idle timer is cleared
PrematureClose ==
  /\ socket = "open"
  /\ res = "receiving"
  /\ wire # <<>>
  /\ socket' = "closed"
  /\ res' = "aborted"
  /\ UNCHANGED <<variant, env, event, pc, response, ops, requests, req, wire, data, promise, log, events>>

Upstream == ResponseStart \/ ResData \/ ResEnd \/ ReqError \/ Timeout
              \/ DestroyedClose \/ PrematureClose

Next == HandlerStart \/ HandlerResume \/ ResponseStart \/ ResData \/ ResEnd
          \/ ReqError \/ Timeout \/ DestroyedClose \/ PrematureClose

Spec == Init /\ [][Next]_vars

\* the platform calls the handler, the event loop runs the continuation of
\* a settled await, and a connection in flight sees one of its events
FairSpec == Spec /\ WF_vars(HandlerStart) /\ WF_vars(HandlerResume) /\ WF_vars(Upstream)

TypeOK ==
  /\ pc \in {"idle", "awaiting", "returned"}
  /\ socket \in {"none", "open", "destroyed", "closed"}
  /\ res \in {"none", "receiving", "ended", "aborted"}
  /\ promise.state \in {"none", "pending", "resolved", "rejected"}
  /\ requests \in 0..1

\* ------------------------------------------------- reading a response
BodyDoc(r) == r.body.v[1].doc

\* a JSON body {error: <string>}
HasErrorBody(r) ==
  /\ JSONParse(r.body).ok
  /\ BodyDoc(r).t = "object"
  /\ DOMAIN BodyDoc(r).v = {"error"}
  /\ BodyDoc(r).v.error.t = "string"
  /\ BodyDoc(r).v.error.v # <<>>

\* a JSON body {reply: R}
HasReplyBody(r) ==
  /\ JSONParse(r.body).ok
  /\ BodyDoc(r).t = "object"
  /\ DOMAIN BodyDoc(r).v = {"reply"}

WellFormed(r) ==
  /\ r # None
  /\ r.statusCode \in {200, 400, 405, 500, 502}
  /\ HasErrorBody(r) \/ HasReplyBody(r)

\* the request body as the claims describe it: it parses to an object
\* whose `messages` is a non-empty array
ValidBody(b) ==
  LET p == JSONParse(b)
  IN /\ p.ok
     /\ p.val.t = "object"
     /\ "messages" \in DOMAIN p.val.v
     /\ p.val.v.messages.t = "array"
     /\ p.val.v.messages.v # <<>>

Invoked == event # None
NoOutboundCall == requests = 0 /\ req = None /\ socket = "none" /\ "https.request" \notin ops

\* C2: a request whose method is not POST is answered at once with 405 and
\* a JSON error body, whatever its body and whether or not the credential
\* is set; the body is not parsed, the credential is not read and no
\* outbound call is started.
C2_NonPostIs405 ==
  (Invoked /\ event.httpMethod # "POST") =>
    /\ pc = "returned"
    /\ response # None
    /\ response.statusCode = 405
    /\ HasErrorBody(response)
    /\ ops = {}
    /\ NoOutboundCall

C2_Witness ==
  /\ Invoked
  /\ event.httpMethod = "post"
  /\ ValidBody(event.body)
  /\ env \in Secrets
  /\ pc = "returned"
  /\ response.statusCode = 405

\* C3: a POST whose body fails JSON parsing (absent body and non-object
\* JSON included) or whose `messages` is missing, not an array or empty is
\* answered with 400 and a JSON error string, and no outbound call is
\* started, whether or not the credential is set.
C3_MalformedIs400 ==
  (Invoked /\ event.httpMethod = "POST" /\ ~ValidBody(event.body)) =>
    /\ pc = "returned"
    /\ response # None
    /\ response.statusCode = 400
    /\ HasErrorBody(response)
    /\ "process.env" \notin ops
    /\ NoOutboundCall

C3_Witness ==
  /\ Invoked
  /\ event.httpMethod = "POST"
  /\ JSONParse(event.body).ok
  /\ JSONParse(event.body).val.t = "object"
  /\ Get(JSONParse(event.body).val, "messages") = Arr(<<>>)
  /\ env \in Secrets
  /\ pc = "returned"
  /\ response.statusCode = 400

\* C4: with the credential unset or empty, a POST with a valid body is
\* answered with 500 and a JSON error body, and no outbound call to the
\* upstream is attempted in that invocation.
C4_MissingCredentialIs500 ==
  (Invoked /\ event.httpMethod = "POST" /\ ValidBody(event.body)
     /\ env \in {Undefined, Str(<<>>)}) =>
    /\ pc = "returned"
    /\ response # None
    /\ response.statusCode = 500
    /\ HasErrorBody(response)
    /\ NoOutboundCall

C4_Witness ==
  /\ Invoked
  /\ event.httpMethod = "POST"
  /\ ValidBody(event.body)
  /\ env = Str(<<>>)
  /\ pc = "returned"
  /\ response.statusCode = 500

\* C10: an invocation makes at most one outbound request: exactly one when
\* the method is POST, the body valid and the credential set, none
\* otherwise; a failure is not retried, so a 200 or 502 response follows
\* exactly one request and a 400, 405 or 500 response follows none.
C10_AtMostOneRequest ==
  /\ requests \in {0, 1}
  /\ Invoked =>
       (requests = 1 <=> (event.httpMethod = "POST" /\ ValidBody(event.body)
                            /\ env \in Secrets))
  /\ pc = "returned" =>
       /\ response.statusCode \in {200, 502} => requests = 1
       /\ response.statusCode \in {400, 405, 500} => requests = 0

C10_Witness ==
  /\ pc = "returned"
  /\ response.statusCode = 502
  /\ promise.state = "rejected"
  /\ requests = 1
  /\ socket = "closed"

\* ------------------------------------------- what the upstream call did
\* the listener calls that ask for a settlement, in order of arrival
SettlingIdx == {i \in 1..Len(events) : events[i].type \in {"end", "error", "timeout"}}
HasSettled == SettlingIdx # {}
FirstSettling == events[CHOOSE i \in SettlingIdx : \A j \in SettlingIdx : i <= j]
TimeoutIdx == {i \in 1..Len(events) : events[i].type = "timeout"}

TimeoutDetail == <<"Request timed out (60s)">>

Is502With(detail) ==
  /\ response.statusCode = 502
  /\ response.headers = JsonHeaders
  /\ BodyDoc(response) = Obj([error |-> Str(<<"AI service temporarily unavailable: ">> \o detail)])

\* `trimmed` is s without its leading and trailing white space
IsTrimOf(trimmed, s) ==
  /\ trimmed # <<>> => ~IsSpace(trimmed[1]) /\ ~IsSpace(trimmed[Len(trimmed)])
  /\ \E i \in 0..(Len(s) - Len(trimmed)) :
       /\ \A j \in 1..Len(trimmed) : s[i + j] = trimmed[j]
       /\ \A j \in 1..Len(s) : (j <= i \/ j > i + Len(trimmed)) => IsSpace(s[j])

\* C5: for a valid request the message sequence of the upstream payload
\* depends on `system` and `messages` alone.  If `system` is a string that
\* is not empty after trimming, the sequence is one longer than `messages`,
\* starts with {role: 'system', content: trimmed system} and continues with
\* `messages` in order; otherwise it is `messages` itself.  (Of the handler
\* of chat.js; the text in part_000 has no `system` field.)
C5_PayloadMessages ==
  (req # None /\ variant = "chat.js") =>
    LET body == JSONParse(event.body).val
        system == Get(body, "system")
        messages == Get(body, "messages").v
        sent == Get(JSONParse(req.body).val, "messages")
    IN /\ JSONParse(req.body).ok
       /\ sent.t = "array"
       /\ IF system.t = "string" /\ \E j \in 1..Len(system.v) : ~IsSpace(system.v[j])
          THEN /\ Len(sent.v) = Len(messages) + 1
               /\ sent.v[1].t = "object"
               /\ DOMAIN sent.v[1].v = {"role", "content"}
               /\ sent.v[1].v.role = Str(<<"system">>)
               /\ sent.v[1].v.content.t = "string"
               /\ IsTrimOf(sent.v[1].v.content.v, system.v)
               /\ \A i \in 1..Len(messages) : sent.v[i + 1] = messages[i]
          ELSE sent.v = messages

C5_Witness ==
  /\ req # None
  /\ variant = "chat.js"
  /\ Get(JSONParse(event.body).val, "system") = Str(<<" ", "a">>)
  /\ Get(JSONParse(event.body).val, "messages") = Arr(<<Turn(1), Turn(2)>>)
  /\ Len(Get(JSONParse(req.body).val, "messages").v) = 3

\* C6: every failure of the upstream call of a valid, credentialed POST (a
\* connection error, a timeout, a body that is not JSON, a parsed body with
\* an error object) is answered with 502 and the body
\* {error: 'AI service temporarily unavailable: <detail>'}, never with 200;
\* for an error object the detail is the upstream's error.message, or a
\* fixed generic message when there is none.
C6_UpstreamFailureIs502 ==
  (pc = "returned" /\ HasSettled) =>
    LET ev == FirstSettling
        parsed == JSONParse(ev.arg)
    IN /\ ev.type = "error" => Is502With(ev.arg.message)
       /\ ev.type = "timeout" => Is502With(TimeoutDetail)
       /\ (ev.type = "end" /\ ~parsed.ok) =>
            /\ response.statusCode = 502
            /\ HasErrorBody(response)
            /\ SubSeq(BodyDoc(response).v.error.v, 1, 2)
                 = <<"AI service temporarily unavailable: ",
                     "Failed to parse the DeepSeek response: ">>
       /\ (ev.type = "end" /\ parsed.ok /\ Get(parsed.val, "error").t = "object") =>
            LET message == Get(Get(parsed.val, "error"), "message")
            IN /\ response.statusCode = 502
               /\ HasErrorBody(response)
               /\ (message.t = "string" /\ message.v # <<>>) => Is502With(message.v)
               /\ message = Undefined => Is502With(<<"DeepSeek API returned an error">>)

C6_Witness ==
  /\ pc = "returned"
  /\ HasSettled
  /\ FirstSettling.type = "end"
  /\ JSONParse(FirstSettling.arg).ok
  /\ JSONParse(FirstSettling.arg).val = Obj([error |-> EmptyObj])
  /\ Is502With(<<"DeepSeek API returned an error">>)

\* what choices[0].message.content of a parsed body holds, Undefined when
\* the path does not exist; and the 200 response the body then calls for
ContentOf(doc) ==
  IF /\ doc.t = "object"
     /\ Get(doc, "choices").t = "array"
     /\ Get(doc, "choices").v # <<>>
     /\ Get(Get(doc, "choices").v[1], "message").t = "object"
  THEN Get(Get(Get(doc, "choices").v[1], "message"), "content")
  ELSE Undefined

ReplyMatches(doc) ==
  LET content == ContentOf(doc)
  IN /\ response.statusCode = 200
     /\ "Access-Control-Allow-Origin" \in DOMAIN response.headers
     /\ response.headers["Access-Control-Allow-Origin"] = "*"
     /\ HasReplyBody(response)
     /\ (content.t = "string" /\ content.v # <<>>) => BodyDoc(response).v.reply = content
     /\ content \in {Undefined, Null, Str(<<>>)} =>
          BodyDoc(response).v.reply = Str(<<"(could not parse the AI reply)">>)

\* C7: when the upstream body is valid JSON with no error object, the
\* handler answers 200 with Access-Control-Allow-Origin: * and {reply: R},
\* where R is choices[0].message.content when that path exists and holds a
\* non-empty text and the placeholder otherwise (choices missing or empty,
\* message missing, content missing or empty), never a failure response.
C7_ValidJsonIs200 ==
  (pc = "returned" /\ HasSettled /\ FirstSettling.type = "end"
     /\ JSONParse(FirstSettling.arg).ok
     /\ ~Truthy(OptGet(JSONParse(FirstSettling.arg).val, "error"))) =>
    ReplyMatches(JSONParse(FirstSettling.arg).val)

\* the same for every valid JSON body but the literal null
C7_ExceptNull ==
  (pc = "returned" /\ HasSettled /\ FirstSettling.type = "end"
     /\ JSONParse(FirstSettling.arg).ok
     /\ JSONParse(FirstSettling.arg).val # Null
     /\ ~Truthy(OptGet(JSONParse(FirstSettling.arg).val, "error"))) =>
    ReplyMatches(JSONParse(FirstSettling.arg).val)

\* C8: when the 60 s timeout fires before the upstream call has completed,
\* the request is destroyed and the handler answers 502 with the timeout
\* message; what arrives afterwards (the 'error' of the destroyed request,
\* a late 'end') does not change that response, and no outbound connection
\* is open once the response is returned.
C8_TimeoutIs502 ==
  TimeoutIdx # {} =>
    /\ socket \in {"destroyed", "closed"}
    /\ promise.state = "rejected"
    /\ promise.value.message = TimeoutDetail
    /\ pc = "returned" => Is502With(TimeoutDetail)

C8_Witness ==
  /\ pc = "returned"
  /\ TimeoutIdx # {}
  /\ events[Len(events)].type \in {"error", "end"}
  /\ Is502With(TimeoutDetail)
  /\ socket = "closed"

\* the response of a run of the handler with credential apiKey, on event e
\* and with the upstream call settled as p; a request less its credential
Outcome(v, e, apiKey, p) ==
  LET run == HandlerSync(v, e, apiKey)
  IN IF run.req = None THEN run.response ELSE FinalResponse(apiKey, p)

WithoutAuthorization(r) ==
  IF r = None THEN r ELSE [r EXCEPT !.headers.Authorization = <<>>]

\* C9: the credential shows in nothing the caller sees: two runs that
\* differ only in the (non-empty) credential and see the same upstream
\* behaviour return the same status, headers and body; the credential goes
\* into the Authorization header of the outbound request and nowhere else.
C9_CredentialNotVisible ==
  (pc = "returned" /\ env \in Secrets) =>
    /\ \A k \in Secrets :
         /\ Outcome(variant, event, k, promise) = response
         /\ WithoutAuthorization(HandlerSync(variant, event, k).req) = WithoutAuthorization(req)
    /\ req # None => req.headers.Authorization = <<"Bearer ">> \o env.v
    /\ \A i \in 1..Len(log) : \A j \in 1..Len(log[i]) : \A k \in Secrets :
         \A c \in 1..Len(k.v) : log[i][j] # k.v[c]

C9_Witness ==
  /\ pc = "returned"
  /\ env = Str(<<"sk-2">>)
  /\ req # None
  /\ req.headers.Authorization = <<"Bearer ", "sk-2">>
  /\ response.statusCode = 502
  /\ log # <<>>

\* C1: every invocation eventually returns one well-formed response (a
\* status code and a JSON body with `reply` or `error`), whatever the
\* event and whatever the upstream does: a complete JSON body, a body that
\* is not JSON, an error body, a connection error, a timeout, or a
\* connection closed after the response has started and before its 'end'.
C1_EventuallyResponds == <>(pc = "returned" /\ WellFormed(response))

\* the handler waits for ever: the connection is gone, no listener has
\* settled the promise, and none is left to be called
Hung == pc = "awaiting" /\ promise.state = "pending" /\ socket = "closed"

C1_OnlyHangIsPrematureClose ==
  /\ Hung => res = "aborted" /\ wire # <<>>
  /\ pc = "returned" => WellFormed(response)

====
